---- MODULE Spec2Model ----
(***************************************************************************)
(* Tic-Tac-Toe with a random and a minimax bot (src/main.py).              *)
(*                                                                         *)
(* A board is the list of lists of main.py: board[i][j] for i, j in 0..2.  *)
(* A cell holds "X", "O" or, while it is empty, the decimal label of its   *)
(* box number ("1".."9"), exactly as Game.__init__ fills it.               *)
(*                                                                         *)
(* Specifications:                                                         *)
(*   Spec       one session of game_loop: a human against one bot          *)
(*   ApiSpec    any caller of Game.move on a fresh Game                    *)
(*   SearchSpec MinimaxBot.move applied to every board still in progress   *)
(*   PlaySpec   two bots playing each other through Game.move              *)
(*   ScenarioSpec  game_loop from the position X 5, O 1, X 9, O 3           *)
(*   ScanSpec   get_winner and _evaluate on every board of X, O and labels *)
(*   EvalSpec   _minimax for each root symbol and each symbol to move      *)
(*   UndoSpec   the writes of the search on its private board              *)
(***************************************************************************)
EXTENDS Integers, Sequences, FiniteSets, TLC

VARIABLES
  board,             \* Game.board
  turn,              \* Game.turn
  human_goes_first,  \* game_loop parameter
  bot,               \* class of the bot created by game_loop
  bot_symbol,        \* Bot.symbol
  pc,                \* position of the driver
  player,            \* game_loop local: 'You' or 'Bot'
  box,               \* the box number handed to Game.move
  winner,            \* value returned by the last Game.move
  err,               \* message of the ValueError raised by the last Game.move
  bots,              \* PlaySpec: the bot class playing each symbol
  symbol,            \* SearchSpec: self.symbol of the searching bot
  scores,            \* SearchSpec: the scores dict of MinimaxBot.move
  arg_symbol,        \* the symbol argument of _minimax
  ret_score,         \* the value returned by _evaluate or _minimax
  copy,              \* the private board of MinimaxBot.move (line 35)
  restored,          \* every _minimax call so far left the board as it got it
  stack              \* UndoSpec: the calls of move and _minimax in progress

vars == <<board, turn, human_goes_first, bot, bot_symbol, pc, player, box,
          winner, err, bots, symbol, scores, arg_symbol, ret_score,
          copy, restored, stack>>

\* the variables of the specifications that apply the search functions alone
search_locals == <<arg_symbol, ret_score, copy, restored, stack>>

----------------------------------------------------------------------------
(* Values *)

\* Python None, as a return value or a cell-free marker
None == "None"

\* box = None (line 46): an integer outside every input the model draws
NoBox == -100

\* -float('inf') (line 47): below every score
NegInf == -1000

\* messages of the two ValueErrors raised by Game.move
InvalidBox == "Box must be between 1 and 9"

CellOccupied == "Box is already filled"

\* None < 1 (line 107) when the box is None
TypeError == "TypeError"

\* random.choice of an empty list (line 26)
IndexError == "IndexError"

\* no exception raised
NoErr == "ok"

\* largest box number a caller submits; callers draw from (10 - MaxInput)..MaxInput
MaxInput == 10

Inputs == (10 - MaxInput)..MaxInput

\* str(box) / f'{box}'
Str(n) == <<"1", "2", "3", "4", "5", "6", "7", "8", "9">>[n]

\* 'X' if symbol == 'O' else 'O'
Other(s) == IF s = "O" THEN "X" ELSE "O"

----------------------------------------------------------------------------
(* class Game *)

get_box_number(row, col) == row * 3 + col + 1

\* a board whose empty cells all hold the same blank
NewBoard_blank == [i \in 0..2 |-> [j \in 0..2 |-> " "]]

\* Game.__init__: the board of box labels
NewBoard == [i \in 0..2 |-> [j \in 0..2 |-> Str(get_box_number(i, j))]]

\* product of range(3) with range(3), the order of the comprehension's loops
RowMajor == <<<<0, 0>>, <<0, 1>>, <<0, 2>>,
              <<1, 0>>, <<1, 1>>, <<1, 2>>,
              <<2, 0>>, <<2, 1>>, <<2, 2>>>>

get_empty_box_positions(b) ==
  SelectSeq(RowMajor, LAMBDA p : b[p[1]][p[2]] \notin {"X", "O"})

\* a == b == c
Eq3(a, b, c) == a = b /\ b = c

\* get_winner_diagonals without the test of the anti-diagonal
get_winner_diagonals_main_only(b) ==
  IF Eq3(b[0][0], b[1][1], b[2][2]) THEN b[0][0]
  ELSE None

\* the two lines tested after the loop of get_winner
get_winner_diagonals(b) ==
  IF Eq3(b[0][0], b[1][1], b[2][2]) THEN b[0][0]
  ELSE IF Eq3(b[0][2], b[1][1], b[2][0]) THEN b[0][2]
  ELSE None

RECURSIVE get_winner_loop_reversed(_, _)
\* the loop of get_winner run from the last row and column to the first
get_winner_loop_reversed(b, i) ==
  IF i > 2 THEN get_winner_diagonals(b)
  ELSE IF Eq3(b[2 - i][0], b[2 - i][1], b[2 - i][2]) THEN b[2 - i][0]
  ELSE IF Eq3(b[0][2 - i], b[1][2 - i], b[2][2 - i]) THEN b[0][2 - i]
  ELSE get_winner_loop_reversed(b, i + 1)

RECURSIVE get_winner_loop(_, _)
\* for i in range(3): row i, then column i
get_winner_loop(b, i) ==
  IF i > 2 THEN get_winner_diagonals(b)
  ELSE IF Eq3(b[i][0], b[i][1], b[i][2]) THEN b[i][0]
  ELSE IF Eq3(b[0][i], b[1][i], b[2][i]) THEN b[0][i]
  ELSE get_winner_loop(b, i + 1)

get_winner(b) == get_winner_loop(b, 0)

\* move_result with the full-board test placed before the winner test
move_result_tie_first(b, t) ==
  IF t = 9 THEN "Tie"
  ELSE IF get_winner(b) # None THEN get_winner(b)
  ELSE None

\* move_result with the full board expected one move early
move_result_tie_early(b, t) ==
  IF get_winner(b) # None THEN get_winner(b)
  ELSE IF t = 8 THEN "Tie"
  ELSE None

\* lines 117-124: the value Game.move returns once the mark is placed
move_result(b, t) ==
  IF get_winner(b) # None THEN get_winner(b)
  ELSE IF t = 9 THEN "Tie"
  ELSE None

\* Python indexing of a list of 3 items: a negative index counts from the end
PyIndex(k) == IF k < 0 THEN k + 3 ELSE k

\* Game.move with the occupancy test placed before the range test
Game_move_occupancy_first(b, t, bx) ==
  IF bx = NoBox
  THEN [board |-> b, turn |-> t, winner |-> None, err |-> TypeError]
  ELSE
  LET row == (bx - 1) \div 3
      col == (bx - 1) % 3
  IN IF row > 2 \/ row < -3
     THEN [board |-> b, turn |-> t, winner |-> None, err |-> IndexError]
     ELSE IF b[PyIndex(row)][col] \in {"X", "O"}
     THEN [board |-> b, turn |-> t, winner |-> None, err |-> CellOccupied]
     ELSE IF bx < 1 \/ bx > 9
     THEN [board |-> b, turn |-> t, winner |-> None, err |-> InvalidBox]
     ELSE LET b1 == [b EXCEPT ![row][col] = IF t % 2 = 0 THEN "X" ELSE "O"]
              t1 == t + 1
          IN [board |-> b1, turn |-> t1, winner |-> move_result(b1, t1),
              err |-> NoErr]

\* Game.move with the turn counter advanced before the box is validated
Game_move_turn_first(b, t, bx) ==
  IF bx = NoBox
  THEN [board |-> b, turn |-> t, winner |-> None, err |-> TypeError]
  ELSE IF bx < 1 \/ bx > 9
  THEN [board |-> b, turn |-> t, winner |-> None, err |-> InvalidBox]
  ELSE LET row == (bx - 1) \div 3
           col == (bx - 1) % 3
           t1 == t + 1
       IN IF b[row][col] \in {"X", "O"}
          THEN [board |-> b, turn |-> t1, winner |-> None, err |-> CellOccupied]
          ELSE LET b1 == [b EXCEPT ![row][col] = IF t % 2 = 0 THEN "X" ELSE "O"]
               IN [board |-> b1, turn |-> t1, winner |-> move_result(b1, t1),
                   err |-> NoErr]

\* Game.move with the two marks of line 114 exchanged
Game_move_o_first(b, t, bx) ==
  IF bx = NoBox
  THEN [board |-> b, turn |-> t, winner |-> None, err |-> TypeError]
  ELSE IF bx < 1 \/ bx > 9
  THEN [board |-> b, turn |-> t, winner |-> None, err |-> InvalidBox]
  ELSE LET row == (bx - 1) \div 3
           col == (bx - 1) % 3
       IN IF b[row][col] \in {"X", "O"}
          THEN [board |-> b, turn |-> t, winner |-> None, err |-> CellOccupied]
          ELSE LET b1 == [b EXCEPT ![row][col] = IF t % 2 = 0 THEN "O" ELSE "X"]
                   t1 == t + 1
               IN [board |-> b1, turn |-> t1, winner |-> move_result(b1, t1),
                   err |-> NoErr]

\* Game.move(box) on a game with board b and turn t: the fields after the
\* call, the value returned and the exception raised (box None fails in the
\* comparison of line 107)
Game_move(b, t, bx) ==
  IF bx = NoBox
  THEN [board |-> b, turn |-> t, winner |-> None, err |-> TypeError]
  ELSE IF bx < 1 \/ bx > 9
  THEN [board |-> b, turn |-> t, winner |-> None, err |-> InvalidBox]
  ELSE LET row == (bx - 1) \div 3
           col == (bx - 1) % 3
       IN IF b[row][col] \in {"X", "O"}
          THEN [board |-> b, turn |-> t, winner |-> None, err |-> CellOccupied]
          ELSE LET b1 == [b EXCEPT ![row][col] = IF t % 2 = 0 THEN "X" ELSE "O"]
                   t1 == t + 1
               IN [board |-> b1, turn |-> t1, winner |-> move_result(b1, t1),
                   err |-> NoErr]

----------------------------------------------------------------------------
(* class RandomBot *)

\* the boxes random.choice can return on a live board gb; no writes
RandomBot_move(gb) ==
  {get_box_number(p[1], p[2]) :
     p \in {get_empty_box_positions(gb)[k] :
              k \in 1..Len(get_empty_box_positions(gb))}}

----------------------------------------------------------------------------
(* class MinimaxBot *)

\* return None of _evaluate (line 68): a number that is no score
NoScore == 1

\* the two scores of a complete line exchanged
LineScore_swapped(cell, self) == IF cell = self THEN -10 ELSE 10

\* 10 if <cell> == self.symbol else -10
LineScore(cell, self) == IF cell = self THEN 10 ELSE -10

\* lines 62-68 of _evaluate
evaluate_diagonals(b, self) ==
  IF Eq3(b[0][0], b[1][1], b[2][2]) THEN LineScore(b[0][0], self)
  ELSE IF Eq3(b[0][2], b[1][1], b[2][0]) THEN LineScore(b[0][2], self)
  ELSE IF \A i \in 0..2 : \A j \in 0..2 : b[i][j] \in {"X", "O"} THEN 0
  ELSE NoScore

RECURSIVE evaluate_loop(_, _, _)
\* lines 56-60 of _evaluate: row i, then column i
evaluate_loop(b, self, i) ==
  IF i > 2 THEN evaluate_diagonals(b, self)
  ELSE IF Eq3(b[i][0], b[i][1], b[i][2]) THEN LineScore(b[i][0], self)
  ELSE IF Eq3(b[0][i], b[1][i], b[2][i]) THEN LineScore(b[0][i], self)
  ELSE evaluate_loop(b, self, i + 1)

_evaluate(b, self) == evaluate_loop(b, self, 0)

\* max(scores) and min(scores) of a non-empty list
SeqMax(s) == CHOOSE m \in {s[k] : k \in 1..Len(s)} : \A k \in 1..Len(s) : s[k] <= m

SeqMin(s) == CHOOSE m \in {s[k] : k \in 1..Len(s)} : \A k \in 1..Len(s) : s[k] >= m

\* line 84 with max and min exchanged
minimax_return_swapped(sc, sym, self) ==
  IF sym = self THEN SeqMin(sc) ELSE SeqMax(sc)

\* line 84
minimax_return(sc, sym, self) ==
  IF sym = self THEN SeqMax(sc) ELSE SeqMin(sc)

RECURSIVE _minimax(_, _, _)
\* lines 75-82: the list of child scores, in the order of empty_boxes.  Each
\* child is searched on the board with sym written to (i, j); line 82 writes
\* the label str(box) back, which is what an empty cell held (line 90), so
\* the next child starts from b again.
minimax_scores(b, sym, self, empty_boxes) ==
  [k \in 1..Len(empty_boxes) |->
     _minimax([b EXCEPT ![empty_boxes[k][1]][empty_boxes[k][2]] = sym],
              Other(sym), self)]

\* lines 72-84, given the score of line 71
minimax_body(score, b, sym, self) ==
  IF score # NoScore THEN score
  ELSE minimax_return(minimax_scores(b, sym, self, get_empty_box_positions(b)),
                      sym, self)

_minimax(b, sym, self) == minimax_body(_evaluate(b, self), b, sym, self)

\* line 42 with the mark written through to the live board as well
move_place_live(h, i, j, self) ==
  [h EXCEPT !.board[i][j] = self, !.game_board[i][j] = self]

\* line 42: board[i][j] = self.symbol, on the copy
move_place(h, i, j, self) == [h EXCEPT !.board[i][j] = self]

\* lines 43-44 on the boards h left by line 42: the score is filed under the
\* box and the cell of the copy gets its label back
move_score(h, i, j, self) ==
  [h EXCEPT !.scores = Append(@, <<get_box_number(i, j),
                                    _minimax(h.board, Other(self), self)>>),
            !.board[i][j] = Str(get_box_number(i, j))]

RECURSIVE move_loop(_, _, _, _)
\* lines 40-44: for i, j in empty_boxes
move_loop(h, self, empty_boxes, k) ==
  IF k > Len(empty_boxes) THEN h
  ELSE move_loop(move_score(move_place(h, empty_boxes[k][1], empty_boxes[k][2], self),
                            empty_boxes[k][1], empty_boxes[k][2], self),
                 self, empty_boxes, k + 1)

RECURSIVE select_loop_last(_, _, _, _)
\* lines 48-51 with >= for >
select_loop_last(items, k, bx, max_score) ==
  IF k > Len(items) THEN bx
  ELSE IF items[k][2] >= max_score
       THEN select_loop_last(items, k + 1, items[k][1], items[k][2])
       ELSE select_loop_last(items, k + 1, bx, max_score)

RECURSIVE select_loop(_, _, _, _)
\* lines 48-51: for key, value in scores.items()
select_loop(items, k, bx, max_score) ==
  IF k > Len(items) THEN bx
  ELSE IF items[k][2] > max_score
       THEN select_loop(items, k + 1, items[k][1], items[k][2])
       ELSE select_loop(items, k + 1, bx, max_score)

\* move_select with max_score starting at +infinity
move_select_inf(h) ==
  [box |-> select_loop(h.scores, 1, NoBox, 0 - NegInf),
   scores |-> h.scores, board |-> h.board, game_board |-> h.game_board]

\* lines 46-53 on the boards and scores h left by the loop of lines 40-44
move_select(h) ==
  [box |-> select_loop(h.scores, 1, NoBox, NegInf),
   scores |-> h.scores, board |-> h.board, game_board |-> h.game_board]

\* MinimaxBot.move on a live board gb for self.symbol = self: the box
\* returned, the scores dict as the list of its items in insertion order,
\* the private copy and the live board as the call leaves them
MinimaxBot_move(gb, self) ==
  move_select(move_loop([game_board |-> gb, board |-> gb, scores |-> <<>>],
                        self, get_empty_box_positions(gb), 1))

\* lines 42 and 80: board[i][j] = symbol
search_place(b, i, j, sym) == [b EXCEPT ![i][j] = sym]

\* search_undo without the write
search_undo_skipped(b, i, j) == b

\* lines 44 and 82: board[i][j] = str(box)
search_undo(b, i, j) == [b EXCEPT ![i][j] = Str(get_box_number(i, j))]

----------------------------------------------------------------------------
(* Spec: main and game_loop, one session of a human against one bot *)

\* search_locals where the search functions are not applied on their own
SearchIdle ==
  /\ arg_symbol = None /\ ret_score = NoScore /\ copy = None
  /\ restored = TRUE /\ stack = <<>>

\* the fields of a game_loop session, where no game_loop runs
DriverIdle ==
  /\ human_goes_first = FALSE /\ bot = None /\ bot_symbol = None
  /\ player = None

\* Bot.__init__ with the two symbols exchanged
Bot_symbol_swapped(goes_first) == IF goes_first THEN "O" ELSE "X"

\* Bot.__init__: 'X' if goes_first else 'O'
Bot_symbol(goes_first) == IF goes_first THEN "X" ELSE "O"

\* line 162
human_first_mod == IF human_goes_first THEN 0 ELSE 1

\* main (lines 199-202) and lines 162-168: a fresh Game, the two answers
Init ==
  /\ board = NewBoard
  /\ turn = 0
  /\ human_goes_first \in BOOLEAN
  /\ bot \in {"MinimaxBot", "RandomBot"}
  /\ bot_symbol = Bot_symbol(~human_goes_first)
  /\ pc = "loop"
  /\ player = None
  /\ box = NoBox
  /\ winner = None
  /\ err = NoErr
  /\ bots = None
  /\ symbol = None
  /\ scores = <<>>
  /\ SearchIdle

\* lines 173-176: the human types an integer
HumanInput(bx) ==
  /\ pc = "loop"
  /\ turn % 2 = human_first_mod
  /\ player' = "You"
  /\ box' = bx
  /\ pc' = "move"
  /\ UNCHANGED <<search_locals, board, turn, human_goes_first, bot,
                 bot_symbol, winner, err, bots, symbol, scores>>

\* lines 173-179: the human types something int() rejects; continue
HumanBadInput ==
  /\ pc = "loop"
  /\ turn % 2 = human_first_mod
  /\ player' = "You"
  /\ UNCHANGED <<search_locals, board, turn, human_goes_first, bot,
                 bot_symbol, pc, box, winner, err, bots, symbol, scores>>

\* lines 180-182 with a MinimaxBot
MinimaxBotMove ==
  /\ pc = "loop"
  /\ turn % 2 # human_first_mod
  /\ bot = "MinimaxBot"
  /\ player' = "Bot"
  /\ \E r \in {MinimaxBot_move(board, bot_symbol)} :
       /\ box' = r.box
       /\ board' = r.game_board
  /\ pc' = "move"
  /\ UNCHANGED <<search_locals, turn, human_goes_first, bot, bot_symbol,
                 winner, err, bots, symbol, scores>>

\* lines 180-182 with a RandomBot
RandomBotMove ==
  /\ pc = "loop"
  /\ turn % 2 # human_first_mod
  /\ bot = "RandomBot"
  /\ player' = "Bot"
  /\ IF RandomBot_move(board) = {}
     THEN pc' = "crashed" /\ err' = IndexError /\ box' = box
     ELSE pc' = "move" /\ err' = err /\ box' \in RandomBot_move(board)
  /\ UNCHANGED <<search_locals, board, turn, human_goes_first, bot,
                 bot_symbol, winner, bots, symbol, scores>>

\* lines 185-191 with the break left out
loop_exit_never(w) == "loop"

\* lines 185-191: break once Game.move returned something
loop_exit(w) == IF w # None THEN "done" ELSE "loop"

\* line 184 and lines 185-191.  The call is outside the try of lines
\* 175-179: an exception of Game.move leaves game_loop and main.
ApplyMove ==
  /\ pc = "move"
  /\ \E r \in {Game_move(board, turn, box)} :
       /\ board' = r.board
       /\ turn' = r.turn
       /\ err' = r.err
       /\ IF r.err # NoErr
          THEN pc' = "crashed" /\ winner' = winner
          ELSE pc' = loop_exit(r.winner) /\ winner' = r.winner
  /\ UNCHANGED <<search_locals, human_goes_first, bot, bot_symbol, player,
                 box, bots, symbol, scores>>

Next ==
  \/ \E bx \in Inputs : HumanInput(bx)
  \/ HumanBadInput
  \/ MinimaxBotMove
  \/ RandomBotMove
  \/ ApplyMove

Spec == Init /\ [][Next]_vars

----------------------------------------------------------------------------
(* ScenarioSpec: game_loop from the position X 5, O 1, X 9, O 3 *)

\* the board after Game.move(5), (1), (9), (3) on a fresh Game
ScenarioBoard ==
  Game_move(Game_move(Game_move(Game_move(NewBoard, 0, 5).board, 1, 1).board,
                      2, 9).board, 3, 3).board

\* the session of game_loop in which the human went first and played 5 and
\* 9, at the top of the loop after the MinimaxBot answered 1 and 3
InitScenario ==
  /\ board = ScenarioBoard
  /\ turn = 4
  /\ human_goes_first = TRUE
  /\ bot = "MinimaxBot"
  /\ bot_symbol = Bot_symbol(~human_goes_first)
  /\ pc = "loop"
  /\ player = "Bot"
  /\ box = 3
  /\ winner = None
  /\ err = NoErr
  /\ bots = None
  /\ symbol = None
  /\ scores = <<>>
  /\ SearchIdle

\* game_loop with the MinimaxBot of this session
NextScenario ==
  \/ \E bx \in Inputs : HumanInput(bx)
  \/ HumanBadInput
  \/ MinimaxBotMove
  \/ ApplyMove

ScenarioSpec == InitScenario /\ [][NextScenario]_vars

----------------------------------------------------------------------------
(* PlaySpec: a bot for X and a bot for O play one game through Game.move *)

\* the bot created with goes_first = True moves on even turns
first_to_move == turn % 2 = 0

InitPlay ==
  /\ board = NewBoard
  /\ turn = 0
  /\ DriverIdle
  /\ pc = "loop"
  /\ box = NoBox
  /\ winner = None
  /\ err = NoErr
  /\ bots \in [{"X", "O"} -> {"MinimaxBot", "RandomBot"}]
  /\ symbol = None
  /\ scores = <<>>
  /\ SearchIdle

\* box = bot.move() of the MinimaxBot whose turn it is
PlayMinimaxMove ==
  /\ pc = "loop"
  /\ bots[Bot_symbol(first_to_move)] = "MinimaxBot"
  /\ \E r \in {MinimaxBot_move(board, Bot_symbol(first_to_move))} :
       /\ box' = r.box
       /\ board' = r.game_board
  /\ pc' = "move"
  /\ UNCHANGED <<search_locals, turn, human_goes_first, bot, bot_symbol,
                 player, winner, err, bots, symbol, scores>>

\* box = bot.move() of the RandomBot whose turn it is
PlayRandomMove ==
  /\ pc = "loop"
  /\ bots[Bot_symbol(first_to_move)] = "RandomBot"
  /\ IF RandomBot_move(board) = {}
     THEN pc' = "crashed" /\ err' = IndexError /\ box' = box
     ELSE pc' = "move" /\ err' = err /\ box' \in RandomBot_move(board)
  /\ UNCHANGED <<search_locals, board, turn, human_goes_first, bot,
                 bot_symbol, player, winner, bots, symbol, scores>>

NextPlay ==
  \/ PlayMinimaxMove
  \/ PlayRandomMove
  \/ ApplyMove

PlaySpec == InitPlay /\ [][NextPlay]_vars

----------------------------------------------------------------------------
(* ApiSpec: any caller of Game.move *)

InitApi ==
  /\ board = NewBoard
  /\ turn = 0
  /\ DriverIdle
  /\ pc = "api"
  /\ box = NoBox
  /\ winner = None
  /\ err = NoErr
  /\ bots = None
  /\ symbol = None
  /\ scores = <<>>
  /\ SearchIdle

\* one call game.move(bx)
Call(bx) ==
  /\ pc = "api"
  /\ \E r \in {Game_move(board, turn, bx)} :
       /\ board' = r.board
       /\ turn' = r.turn
       /\ winner' = r.winner
       /\ err' = r.err
  /\ box' = bx
  /\ UNCHANGED <<search_locals, human_goes_first, bot, bot_symbol, pc, player,
                 bots, symbol, scores>>

NextApi == \E bx \in Inputs : Call(bx)

ApiSpec == InitApi /\ [][NextApi]_vars

----------------------------------------------------------------------------
(* SearchSpec: MinimaxBot.move on every board of a game in progress *)

\* a board from the marks of its 9 boxes, "E" for an empty one
BoardOf(m) ==
  [i \in 0..2 |-> [j \in 0..2 |->
     IF m[get_box_number(i, j)] = "E" THEN Str(get_box_number(i, j))
     ELSE m[get_box_number(i, j)]]]

\* the boards game_loop hands to a bot: X and O placed in turn (line 114),
\* no line complete and a cell free (lines 185-191)
SearchBoards ==
  {BoardOf(m) : m \in
     {m \in [1..9 -> {"X", "O", "E"}] :
        /\ Cardinality({k \in 1..9 : m[k] = "X"})
             - Cardinality({k \in 1..9 : m[k] = "O"}) \in {0, 1}
        /\ \E k \in 1..9 : m[k] = "E"
        /\ get_winner(BoardOf(m)) = None}}

InitSearch ==
  /\ board \in SearchBoards
  /\ turn = 9 - Len(get_empty_box_positions(board))
  /\ DriverIdle
  /\ pc = "search"
  /\ box = NoBox
  /\ winner = None
  /\ err = NoErr
  /\ bots = None
  /\ symbol \in {"X", "O"}
  /\ scores = <<>>
  /\ SearchIdle

\* box = MinimaxBot(game, ...).move() with self.symbol = symbol
Search ==
  /\ pc = "search"
  /\ \E r \in {MinimaxBot_move(board, symbol)} :
       /\ box' = r.box
       /\ scores' = r.scores
       /\ board' = r.game_board
  /\ pc' = "searched"
  /\ UNCHANGED <<search_locals, turn, human_goes_first, bot, bot_symbol,
                 player, winner, err, bots, symbol>>

NextSearch == Search

SearchSpec == InitSearch /\ [][NextSearch]_vars

----------------------------------------------------------------------------
(* ScanSpec: get_winner and _evaluate on every board of marks and labels *)

\* every 3x3 board whose cells hold X, O or their own box number
AllBoards == {BoardOf(m) : m \in [1..9 -> {"X", "O", "E"}]}

InitScan ==
  /\ board \in AllBoards
  /\ turn = 9 - Len(get_empty_box_positions(board))
  /\ DriverIdle
  /\ pc = "scan"
  /\ box = NoBox
  /\ winner = None
  /\ err = NoErr
  /\ bots = None
  /\ symbol \in {"X", "O"}
  /\ scores = <<>>
  /\ SearchIdle

\* game.get_winner() and MinimaxBot(game, symbol)._evaluate(game.board)
Scan ==
  /\ pc = "scan"
  /\ winner' = get_winner(board)
  /\ ret_score' = _evaluate(board, symbol)
  /\ pc' = "scanned"
  /\ UNCHANGED <<arg_symbol, copy, restored, stack, board, turn, human_goes_first,
                 bot, bot_symbol, player, box, err, bots, symbol, scores>>

NextScan == Scan

ScanSpec == InitScan /\ [][NextScan]_vars

----------------------------------------------------------------------------
(* EvalSpec: _minimax on the boards of play, for each root symbol and each
   symbol to move *)

\* the largest number of empty cells of a board handed to _minimax
MaxEmpty == 7

\* the boards on which a game ends: one more Game.move on a board in progress
FinalBoards ==
  {Game_move(b, 9 - Len(get_empty_box_positions(b)), bx).board :
     b \in SearchBoards, bx \in 1..9} \ SearchBoards

PlayBoards == SearchBoards \cup FinalBoards

InitEval ==
  /\ board \in {b \in PlayBoards : Len(get_empty_box_positions(b)) <= MaxEmpty}
  /\ turn = 9 - Len(get_empty_box_positions(board))
  /\ DriverIdle
  /\ pc = "eval"
  /\ box = NoBox
  /\ winner = None
  /\ err = NoErr
  /\ bots = None
  /\ symbol \in {"X", "O"}
  /\ scores = <<>>
  /\ arg_symbol \in {"X", "O"}
  /\ ret_score = NoScore
  /\ copy = None
  /\ restored = TRUE
  /\ stack = <<>>

\* score = MinimaxBot(game, symbol)._minimax(board, arg_symbol)
Evaluate ==
  /\ pc = "eval"
  /\ ret_score' = _minimax(board, arg_symbol, symbol)
  /\ pc' = "evaluated"
  /\ UNCHANGED <<arg_symbol, copy, restored, stack, board, turn, human_goes_first,
                 bot, bot_symbol, player, box, winner, err, bots, symbol,
                 scores>>

NextEval == Evaluate

EvalSpec == InitEval /\ [][NextEval]_vars

----------------------------------------------------------------------------
(* UndoSpec: the writes MinimaxBot.move and _minimax make on the private
   board *)

\* the largest number of empty cells of a board whose search is followed
\* write by write
MaxUndoEmpty == 6

InitUndo ==
  /\ board \in {b \in SearchBoards :
                   Len(get_empty_box_positions(b)) <= MaxUndoEmpty}
  /\ turn = 9 - Len(get_empty_box_positions(board))
  /\ DriverIdle
  /\ pc = "track"
  /\ box = NoBox
  /\ winner = None
  /\ err = NoErr
  /\ bots = None
  /\ symbol \in {"X", "O"}
  /\ scores = <<>>
  /\ SearchIdle

\* the innermost call in progress and the cell of its current iteration
Top == stack[Len(stack)]

TopCell == Top.empty_boxes[Top.k]

\* the frame of a call entered on the board b that places sym
Frame(b, sym) ==
  [symbol |-> sym, empty_boxes |-> get_empty_box_positions(b), k |-> 1,
   entry |-> b]

\* lines 35-38 of MinimaxBot(game, symbol).move()
BeginMove ==
  /\ pc = "track"
  /\ copy' = board
  /\ stack' = <<Frame(board, symbol)>>
  /\ pc' = "for"
  /\ UNCHANGED <<arg_symbol, ret_score, restored, board, turn,
                 human_goes_first, bot, bot_symbol, player, box, winner, err,
                 bots, symbol, scores>>

\* lines 41-43 and 79-81: the mark is written and _minimax is called; the
\* call returns at line 73 on a finished board, otherwise it starts its own
\* loop (lines 75-78)
PlaceAndCall ==
  /\ pc = "for"
  /\ Top.k <= Len(Top.empty_boxes)
  /\ \E b \in {search_place(copy, TopCell[1], TopCell[2], Top.symbol)} :
       /\ copy' = b
       /\ IF _evaluate(b, symbol) # NoScore
          THEN stack' = stack /\ pc' = "undo"
          ELSE stack' = Append(stack, Frame(b, Other(Top.symbol))) /\ pc' = "for"
  /\ UNCHANGED <<arg_symbol, ret_score, restored, board, turn,
                 human_goes_first, bot, bot_symbol, player, box, winner, err,
                 bots, symbol, scores>>

\* line 84: the loop of a _minimax call is over and the call returns
Return ==
  /\ pc = "for"
  /\ Len(stack) > 1
  /\ Top.k > Len(Top.empty_boxes)
  /\ restored' = (restored /\ copy = Top.entry)
  /\ stack' = SubSeq(stack, 1, Len(stack) - 1)
  /\ pc' = "undo"
  /\ UNCHANGED <<arg_symbol, ret_score, copy, board, turn, human_goes_first,
                 bot, bot_symbol, player, box, winner, err, bots, symbol,
                 scores>>

\* lines 44 and 82, then the next iteration
Undo ==
  /\ pc = "undo"
  /\ copy' = search_undo(copy, TopCell[1], TopCell[2])
  /\ stack' = [stack EXCEPT ![Len(stack)].k = @ + 1]
  /\ pc' = "for"
  /\ UNCHANGED <<arg_symbol, ret_score, restored, board, turn,
                 human_goes_first, bot, bot_symbol, player, box, winner, err,
                 bots, symbol, scores>>

\* the loop of MinimaxBot.move is over (line 46)
EndMove ==
  /\ pc = "for"
  /\ Len(stack) = 1
  /\ Top.k > Len(Top.empty_boxes)
  /\ stack' = <<>>
  /\ pc' = "tracked"
  /\ UNCHANGED <<arg_symbol, ret_score, copy, restored, board, turn,
                 human_goes_first, bot, bot_symbol, player, box, winner, err,
                 bots, symbol, scores>>

NextUndo == BeginMove \/ PlaceAndCall \/ Return \/ Undo \/ EndMove

UndoSpec == InitUndo /\ [][NextUndo]_vars

----------------------------------------------------------------------------
(* Vocabulary of the properties *)

Cells == (0..2) \X (0..2)

\* the 3 rows, 3 columns and 2 diagonals
Lines == {{<<i, 0>>, <<i, 1>>, <<i, 2>>} : i \in 0..2}
         \cup {{<<0, j>>, <<1, j>>, <<2, j>>} : j \in 0..2}
         \cup {{<<0, 0>>, <<1, 1>>, <<2, 2>>}, {<<0, 2>>, <<1, 1>>, <<2, 0>>}}

\* some line of b holds three marks s
HasLine(b, s) == \E l \in Lines : \A p \in l : b[p[1]][p[2]] = s

Marked(b) == {p \in Cells : b[p[1]][p[2]] \in {"X", "O"}}

\* the cells on which two boards differ
Changed(b, c) == {p \in Cells : b[p[1]][p[2]] # c[p[1]][p[2]]}

\* the cell a box number in 1..9 names
CellOf(bx) == <<(bx - 1) \div 3, (bx - 1) % 3>>

\* no line is complete and a cell is free
InProgress(b) ==
  ~HasLine(b, "X") /\ ~HasLine(b, "O") /\ Cardinality(Marked(b)) < 9

----------------------------------------------------------------------------
(* Properties of Game, checked under ApiSpec *)

\* C2: the turn counter always equals the number of cells holding X or O;
\* a successful Game.move adds 1 to the counter and marks exactly one cell
\* that was empty, and a failed one changes neither board nor counter.
C2_TurnCountsMarks ==
  /\ [](turn = Cardinality(Marked(board)))
  /\ [][IF err' = NoErr
        THEN /\ turn' = turn + 1
             /\ \E p \in Cells :
                  /\ Changed(board, board') = {p}
                  /\ p \notin Marked(board)
                  /\ p \in Marked(board')
        ELSE board' = board /\ turn' = turn]_vars

\* five marks placed, then a call that failed
C2_Witness == turn = 5 /\ err = CellOccupied /\ Cardinality(Marked(board)) = 5

\* C5: a box outside 1..9 raises InvalidBox, also when the cell that the
\* index arithmetic would land on is occupied; a box in range whose cell is
\* marked raises CellOccupied; both leave board and turn as they were.
C5_FailedMoveLeavesGame ==
  [][/\ (box' < 1 \/ box' > 9)
          => (err' = InvalidBox /\ board' = board /\ turn' = turn)
     /\ (box' \in 1..9 /\ CellOf(box') \in Marked(board))
          => (err' = CellOccupied /\ board' = board /\ turn' = turn)]_vars

\* box 0 submitted while box 9, where index -1 lands, is marked
C5_Witness == box < 1 /\ err = InvalidBox /\ board[2][2] \in {"X", "O"}

\* C7: a successful move on a game in progress returns the placed symbol
\* when the move completes a line of it, else Tie when it filled the 9th
\* cell, else None; so a line completed by the 9th mark is a win.
C7_MoveOutcome ==
  [][(err' = NoErr /\ InProgress(board))
       => \E p \in Changed(board, board') :
            winner' = IF HasLine(board', board'[p[1]][p[2]])
                        THEN board'[p[1]][p[2]]
                      ELSE IF Cardinality(Marked(board')) = 9 THEN "Tie"
                      ELSE None]_vars

\* the board X,O,X / O,X,O / O,X,_ after move 9
C7_Witness ==
  /\ board = [i \in 0..2 |-> [j \in 0..2 |->
               <<"X", "O", "X", "O", "X", "O", "O", "X", "X">>[get_box_number(i, j)]]]
  /\ box = 9 /\ err = NoErr /\ turn = 9 /\ winner = "X"

\* C9: get_winner returns X or O exactly when some line holds three of that
\* symbol, and None when no line holds three X or three O; a line of empty
\* cells is no winner.
C9_WinnerIffLine ==
  \/ get_winner(board) \in {"X", "O"} /\ HasLine(board, get_winner(board))
  \/ get_winner(board) = None /\ ~HasLine(board, "X") /\ ~HasLine(board, "O")

\* O completed a line with its third mark while a row is still empty
C9_Witness ==
  /\ turn = 6 /\ get_winner(board) = "O"
  /\ \E i \in 0..2 : \A j \in 0..2 : board[i][j] \notin {"X", "O"}

----------------------------------------------------------------------------
(* Properties of MinimaxBot.move, checked under SearchSpec *)

\* the boxes whose score is the largest of the scores dict
BestBoxes(sc) ==
  {sc[k][1] : k \in {k \in 1..Len(sc) : \A n \in 1..Len(sc) : sc[n][2] <= sc[k][2]}}

\* C4: on every board in progress and for either symbol, the scores dict
\* has one entry per empty box and MinimaxBot.move returns the lowest box
\* number among those whose score is maximal.
C4_LowestBestBox ==
  pc = "searched" =>
    /\ {scores[k][1] : k \in 1..Len(scores)}
         = {get_box_number(p[1], p[2]) : p \in Cells \ Marked(board)}
    /\ box \in BestBoxes(scores)
    /\ \A b \in BestBoxes(scores) : box <= b

\* the empty board, where all nine boxes score 0 and box 1 is returned
C4_Witness ==
  /\ pc = "searched" /\ board = NewBoard /\ symbol = "X"
  /\ Cardinality(BestBoxes(scores)) = 9
  /\ box = 1

----------------------------------------------------------------------------
(* Properties of the sessions *)

\* C1: in a session of game_loop with a MinimaxBot, whoever moves first, no
\* Game.move returns the human's symbol: the session ends in a win of the
\* bot or in Tie.
C1_MinimaxNeverLoses ==
  bot = "MinimaxBot" =>
    /\ winner \in {None, "Tie", bot_symbol}
    /\ pc = "done" => winner \in {"Tie", bot_symbol}

\* the human moved first, played nine legal moves with the bot, and tied
C1_Witness ==
  /\ bot = "MinimaxBot" /\ human_goes_first
  /\ pc = "done" /\ winner = "Tie" /\ turn = 9

\* both symbols are played by a MinimaxBot
SelfPlay == bots = [s \in {"X", "O"} |-> "MinimaxBot"]

\* C3: when both symbols are played by MinimaxBot from the empty board, no
\* move returns X or O, the session stops exactly when Tie is returned, which
\* is on the 9th move, and every box a bot hands to Game.move is accepted and
\* adds 1 to turn (so the 9th move is reached after 9 rounds of the loop).
C3_SelfPlayTies ==
  /\ [](SelfPlay => /\ winner \in {None, "Tie"}
                    /\ pc \in {"loop", "move", "done"}
                    /\ pc = "done" <=> winner = "Tie"
                    /\ winner = "Tie" <=> turn = 9)
  /\ [][(SelfPlay /\ pc = "move") => (err' = NoErr /\ turn' = turn + 1)]_vars

\* the self-play session after its 9th move
C3_Witness == SelfPlay /\ pc = "done" /\ winner = "Tie" /\ turn = 9

\* C6 as claimed: when Game.move raises InvalidBox or CellOccupied the
\* driver is back at its prompt with the game as it was.
C6_ErrorsRecoverable ==
  [][err' \in {InvalidBox, CellOccupied}
       => (pc' = "loop" /\ board' = board /\ turn' = turn)]_vars

\* C8: once Game.move has returned X, O or Tie in a session of game_loop,
\* the board and the turn counter of that game never change again.
C8_TerminalIsFinal ==
  [][winner # None => (board' = board /\ turn' = turn)]_vars

\* a session won while cells are still free
C8_Witness == pc = "done" /\ winner \in {"X", "O"} /\ turn < 9

\* C10: the step in which the bot of game_loop chooses its box (MinimaxBot
\* or RandomBot) leaves Game.board and Game.turn as they were.
C10_BotMoveLeavesGame ==
  [][(pc = "loop" /\ pc' = "move" /\ player' = "Bot")
       => (board' = board /\ turn' = turn)]_vars

\* a MinimaxBot has searched a board with marks on it and returned a box
C10_Witness ==
  /\ bot = "MinimaxBot" /\ player = "Bot" /\ pc = "move"
  /\ box \in 1..9 /\ turn > 0

----------------------------------------------------------------------------
(* Further properties of Game and of the sessions *)

\* the cells of b holding the mark s
MarkedBy(b, s) == {p \in Cells : b[p[1]][p[2]] = s}

\* the mark line 114 writes when the counter is t
MarkAt(t) == IF t % 2 = 0 THEN "X" ELSE "O"

\* C12: a successful Game.move writes X on an even turn counter and O on an
\* odd one, so the board always holds ceil(turn/2) X and floor(turn/2) O.
C12_TurnParity ==
  /\ [](/\ Cardinality(MarkedBy(board, "X")) = (turn + 1) \div 2
        /\ Cardinality(MarkedBy(board, "O")) = turn \div 2)
  /\ [][err' = NoErr =>
          \A p \in Changed(board, board') : board'[p[1]][p[2]] = MarkAt(turn)]_vars

\* an odd counter after a successful move: one X more than O
C12_Witness ==
  /\ turn = 5 /\ err = NoErr /\ box \in 1..9
  /\ Cardinality(MarkedBy(board, "X")) = 3
  /\ Cardinality(MarkedBy(board, "O")) = 2

\* the step box = bot.move() of game_loop
BotChooses == pc = "loop" /\ pc' = "move" /\ player' = "Bot"

\* C14: in a session of game_loop the box a bot returns is a number in 1..9
\* (never None) whose cell is empty on the live board, so no exception of
\* Game.move, and no crash, comes from a move of the bot.
C14_BotBoxIsLegal ==
  /\ [][BotChooses => /\ box' \in 1..9
                      /\ CellOf(box') \notin Marked(board)]_vars
  /\ [][(pc = "move" /\ player = "Bot") => (err' = NoErr /\ pc' # "crashed")]_vars
  /\ [](pc = "crashed" => player = "You")

\* a RandomBot filled the last free cell but one
C14_Witness ==
  /\ bot = "RandomBot" /\ player = "Bot" /\ pc = "loop"
  /\ err = NoErr /\ turn = 8 /\ board[CellOf(box)[1]][CellOf(box)[2]] = bot_symbol

\* C16: in a session of game_loop, which stops at the first outcome, no
\* board holds a complete line of X and a complete line of O, and the
\* symbol get_winner reports is the only one that has a line.
C16_OneWinnerOnly ==
  /\ ~(HasLine(board, "X") /\ HasLine(board, "O"))
  /\ \A s \in {"X", "O"} : HasLine(board, s) => get_winner(board) = s

\* a session won by X while O has two marks in a line whose third cell is free
C16_Witness ==
  /\ pc = "done" /\ HasLine(board, "X")
  /\ \E l \in Lines :
       /\ Cardinality(l \cap MarkedBy(board, "O")) = 2
       /\ Cardinality(l \cap Marked(board)) = 2

\* C18: in a session of game_loop an outcome is returned by the 5th to the
\* 9th successful move and the 9th always returns one; Tie is returned by
\* the 9th only; every accepted move adds 1 to turn, so a session of legal
\* moves has its outcome after at most 9 of them.
C18_OutcomeByNinthMove ==
  /\ [](/\ turn \in 0..9
        /\ winner # None => turn \in 5..9
        /\ winner = "Tie" => turn = 9
        /\ turn = 9 => (winner # None /\ pc = "done")
        /\ winner # None <=> pc = "done")
  /\ [][(pc = "move" /\ err' = NoErr) => turn' = turn + 1]_vars

\* the earliest outcome: X wins with its third mark
C18_Witness == pc = "done" /\ turn = 5 /\ winner = "X"

\* C19: in a session of game_loop, whoever goes first, the bot's symbol is
\* the one set at creation, it is the mark line 114 writes whenever the bot
\* is asked to move, and it is the mark found in the box the bot chose.
C19_BotPlaysOwnSymbol ==
  /\ [][bot_symbol' = bot_symbol]_vars
  /\ [][BotChooses => MarkAt(turn) = bot_symbol]_vars
  /\ [][(pc = "move" /\ player = "Bot" /\ err' = NoErr)
          => board'[CellOf(box)[1]][CellOf(box)[2]] = bot_symbol]_vars

\* the human went first and a MinimaxBot has placed its second O
C19_Witness ==
  /\ human_goes_first /\ bot = "MinimaxBot" /\ bot_symbol = "O"
  /\ player = "Bot" /\ pc = "loop" /\ turn = 4
  /\ board[CellOf(box)[1]][CellOf(box)[2]] = "O"

\* C20: in a session of game_loop, when Game.move returns X or O that symbol
\* is the mark the move just placed and it has a complete line; the player
\* the driver names ('Bot' or 'You') is the owner of that symbol.
C20_WinnerMadeLastMove ==
  winner \in {"X", "O"} =>
    /\ box \in 1..9
    /\ board[CellOf(box)[1]][CellOf(box)[2]] = winner
    /\ HasLine(board, winner)
    /\ player = "Bot" <=> winner = bot_symbol
    /\ player = "You" <=> winner = Other(bot_symbol)

\* the human, playing O, beat a RandomBot
C20_Witness ==
  /\ pc = "done" /\ winner = "O" /\ player = "You" /\ bot_symbol = "X"

----------------------------------------------------------------------------
(* The scenario X 5, O 1, X 9, O 3, checked under ScenarioSpec *)

\* some line of b holds two marks s and an empty third cell
OpenTwo(b, s) ==
  \E l \in Lines : /\ Cardinality(l \cap MarkedBy(b, s)) = 2
                   /\ Cardinality(l \cap Marked(b)) = 2

\* C11: from the position X 5, O 1, X 9, O 3, with the MinimaxBot playing O
\* and the human any box, X never has a complete line and never is returned
\* as winner, and every move of O either wins or leaves no line with two X
\* and an empty third cell.
C11_ScenarioBlocks ==
  /\ [](~HasLine(board, "X") /\ winner # "X")
  /\ [][(pc = "move" /\ player = "Bot")
          => (err' = NoErr /\ (winner' = "O" \/ ~OpenTwo(board', "X")))]_vars

\* X took box 2, threatening 2-5-8, and O answered 8
C11_Witness ==
  /\ player = "Bot" /\ pc = "loop" /\ turn = 6 /\ box = 8
  /\ board[0][1] = "X" /\ board[2][1] = "O"
  /\ ~OpenTwo(board, "X")

----------------------------------------------------------------------------
(* The scan order of the lines, checked under ScanSpec *)

\* the 8 lines in the order row 0, column 0, row 1, column 1, row 2,
\* column 2, main diagonal, anti-diagonal
ScanOrder ==
  << <<<<0, 0>>, <<0, 1>>, <<0, 2>>>>, <<<<0, 0>>, <<1, 0>>, <<2, 0>>>>,
     <<<<1, 0>>, <<1, 1>>, <<1, 2>>>>, <<<<0, 1>>, <<1, 1>>, <<2, 1>>>>,
     <<<<2, 0>>, <<2, 1>>, <<2, 2>>>>, <<<<0, 2>>, <<1, 2>>, <<2, 2>>>>,
     <<<<0, 0>>, <<1, 1>>, <<2, 2>>>>, <<<<0, 2>>, <<1, 1>>, <<2, 0>>>> >>

\* the positions in ScanOrder of the lines of b filled by one symbol
CompleteAt(b) ==
  {k \in 1..8 : \E s \in {"X", "O"} :
     \A n \in 1..3 : b[ScanOrder[k][n][1]][ScanOrder[k][n][2]] = s}

\* the symbol of the first complete line of b in ScanOrder
FirstLineSymbol(b) ==
  b[ScanOrder[CHOOSE k \in CompleteAt(b) : \A q \in CompleteAt(b) : k <= q][1][1]]
   [ScanOrder[CHOOSE k \in CompleteAt(b) : \A q \in CompleteAt(b) : k <= q][1][2]]

\* C17: on every board of X, O and empty cells, boards with several complete
\* lines included, get_winner returns the symbol of the first complete line
\* in the order row 0, column 0, row 1, column 1, row 2, column 2, main
\* diagonal, anti-diagonal, and _evaluate scores that same line (10 for the
\* bot's symbol, -10 for the other); with no complete line get_winner returns
\* None and _evaluate 0 on a full board and None otherwise.
C17_FirstLineInScanOrder ==
  pc = "scanned" =>
    IF CompleteAt(board) = {}
    THEN /\ winner = None
         /\ ret_score = IF Marked(board) = Cells THEN 0 ELSE NoScore
    ELSE /\ winner = FirstLineSymbol(board)
         /\ ret_score = IF FirstLineSymbol(board) = symbol THEN 10 ELSE -10

\* rows 0 and 2 complete with different symbols: the earlier row is reported
C17_Witness ==
  /\ pc = "scanned"
  /\ \A j \in 0..2 : board[0][j] = "O" /\ board[2][j] = "X"
  /\ winner = "O" /\ symbol = "X" /\ ret_score = -10

----------------------------------------------------------------------------
(* The value of a position, checked under EvalSpec *)

\* the boards after sym marks one empty cell of b
Children(b, sym) == {[b EXCEPT ![c[1]][c[2]] = sym] : c \in Cells \ Marked(b)}

SetMax(S) == CHOOSE m \in S : \A n \in S : n <= m

SetMin(S) == CHOOSE m \in S : \A n \in S : n >= m

RECURSIVE Value(_, _, _)
\* the game-theoretic value of b for root when sym is to move
Value(b, sym, root) ==
  IF HasLine(b, root) THEN 10
  ELSE IF HasLine(b, Other(root)) THEN -10
  ELSE IF Marked(b) = Cells THEN 0
  ELSE IF sym = root
       THEN SetMax({Value(c, Other(sym), root) : c \in Children(b, sym)})
       ELSE SetMin({Value(c, Other(sym), root) : c \in Children(b, sym)})

\* C13: on every board reachable in play, finished or not, for every root
\* symbol and every symbol to move, _minimax returns 10, 0 or -10 and the
\* returned score is the game-theoretic value: 10 on a line of the root
\* symbol, -10 on a line of the other symbol, 0 on a full board without a
\* line, otherwise the maximum of the child values when the root symbol is to
\* move and the minimum when the opponent is.
C13_MinimaxIsGameValue ==
  pc = "evaluated" =>
    /\ ret_score \in {10, 0, -10}
    /\ ret_score = Value(board, arg_symbol, symbol)

\* a board in progress with at least 5 empty cells on which the opponent is
\* to move and the root symbol still wins
C13_Witness ==
  /\ pc = "evaluated"
  /\ InProgress(board)
  /\ Len(get_empty_box_positions(board)) >= 5
  /\ arg_symbol # symbol
  /\ ret_score = 10

----------------------------------------------------------------------------
(* The private board of the search, checked under UndoSpec *)

\* C15: the search undoes every placement it makes on its private board:
\* every call of _minimax returns with the board cell for cell as it was
\* when the call was entered, and when the loop of MinimaxBot.move is over
\* the private board equals the live board it was copied from.
C15_SearchRestoresBoard ==
  /\ [](restored /\ (pc = "tracked" => copy = board))
  /\ [][Len(stack') < Len(stack) => copy = Top.entry]_vars

\* a call entered 3 calls deep has returned and its cell is about to be
\* written back
C15_Witness ==
  /\ pc = "undo"
  /\ Len(stack) = 3
  /\ Len(Top.empty_boxes) >= 2
  /\ copy = search_place(Top.entry, TopCell[1], TopCell[2], Top.symbol)
  /\ restored

====
